---- MODULE Spec2Model ----
(***************************************************************************)
(* Model of the AirUp stock checker (src/main.py): the polling loop of     *)
(* main(), AirUpChecker.check_availability, the notification fan-out of    *)
(* AirUpChecker._notify_all and the Statistics counters.                   *)
(*                                                                         *)
(* The program is single-threaded; pc is the position of its only thread:  *)
(*   "loop"     top of `while True` in main (line 233)                     *)
(*   "request"  inside check_availability, total_checks counted, the       *)
(*              requests.post of line 164 in flight                        *)
(*   "notify"   inside _notify_all, about to call backend number i         *)
(*   "return"   outcome counted and logged, update_title/return pending    *)
(*   "sleep"    main is about to run time.sleep(300)                       *)
(*   "done"     main has left the loop through `break`                     *)
(*   "exited"   main has returned                                          *)
(*   "crashed"  an exception left check_availability (no handler in main)  *)
(***************************************************************************)
EXTENDS Integers, Sequences, FiniteSets, TLC

\* ---- bounds of the model --------------------------------------------------
MaxChecks == 4
MaxServices == 2

\* ---- program constants ----------------------------------------------------
SleepSeconds == 300
HTTP_OK == 200
Marker == "OUT_OF_STOCK"

\* The two NotificationService subclasses.
ServiceKinds == {"Desktop", "Discord"}

\* Simulated answers of the shop endpoint.  A body is a sequence of tokens,
\* searched for the marker as `"OUT_OF_STOCK" in response.text` does.
StatusCodes == {200, 500}
Bodies == {<<"ok">>, <<"ok", "OUT_OF_STOCK">>}
HttpOutcomes ==
    {[raised |-> TRUE, status_code |-> 0, text |-> <<>>]}
    \cup {[raised |-> FALSE, status_code |-> s, text |-> b] :
              s \in StatusCodes, b \in Bodies}
NoResponse == [raised |-> FALSE, status_code |-> 0, text |-> <<>>]

VARIABLES
    notification_services,  \* AirUpChecker.notification_services: backend kinds, in registration order
    statistics,             \* the shared Statistics object
    title,                  \* console title last written by Statistics.update_title
    pc,                     \* position of the thread
    i,                      \* index of the backend _notify_all is about to call
    response,               \* outcome of the requests.post of the current/last check
    result,                 \* value check_availability returns / returned
    log,                    \* lines written by ConsoleLogger.log
    calls,                  \* send_notification calls received by the backends
    posts,                  \* number of requests.post calls to the shop endpoint
    sleeps,                 \* number of time.sleep calls
    elapsed,                \* seconds slept in total
    completed,              \* number of returns from check_availability
    entry,                  \* statistics at entry of the current/last check
    entry_calls             \* Len(calls) at entry of the current/last check

vars == <<notification_services, statistics, title, pc, i, response, result,
          log, calls, posts, sleeps, elapsed, completed, entry, entry_calls>>

\* ---- helpers ----------------------------------------------------------------
\* `"OUT_OF_STOCK" in response.text`
Contains(text, m) == \E k \in 1..Len(text) : text[k] = m

\* The numbers Statistics.update_title interpolates into the title.
TitleOf(s) == [no_stock |-> s.out_of_stock_count, stock |-> s.in_stock_count]

\* ConsoleLogger.log(message, status)
Line(m, s) == [msg |-> m, status |-> s]

Inc(s, f) == [s EXCEPT ![f] = @ + 1]

\* ---- initial state: main() up to the start of the loop ----------------------
Init ==
    /\ notification_services \in
           UNION {[1..n -> ServiceKinds] : n \in 0..MaxServices}
    /\ statistics = [total_checks |-> 0, in_stock_count |-> 0,
                     out_of_stock_count |-> 0, error_count |-> 0]
    /\ title = TitleOf(statistics)
    /\ pc = "loop"
    /\ i = 0
    /\ response = NoResponse
    /\ result = FALSE
    /\ log = <<Line("starting", "info")>>
    /\ calls = <<>>
    /\ posts = 0
    /\ sleeps = 0
    /\ elapsed = 0
    /\ completed = 0
    /\ entry = statistics
    /\ entry_calls = 0

\* ---- check_availability -----------------------------------------------------
\* main calls check_availability; total_checks += 1 (line 162).
CheckEnter ==
    /\ pc = "loop"
    /\ statistics.total_checks < MaxChecks
    /\ entry' = statistics
    /\ entry_calls' = Len(calls)
    /\ statistics' = Inc(statistics, "total_checks")
    /\ response' = NoResponse
    /\ pc' = "request"
    /\ UNCHANGED <<notification_services, title, i, result, log, calls,
                   posts, sleeps, elapsed, completed>>

\* requests.post raised a RequestException (lines 190-192).
\* Faulty variant: the except branch forgets error_count.
TransportError_NoCount(r) ==
    /\ log' = Append(log, Line("transport_error", "error"))
    /\ result' = FALSE
    /\ pc' = "return"
    /\ UNCHANGED <<statistics, i>>

TransportError(r) ==
    /\ statistics' = Inc(statistics, "error_count")
    /\ log' = Append(log, Line("transport_error", "error"))
    /\ result' = FALSE
    /\ pc' = "return"
    /\ UNCHANGED i

\* status_code != 200 (lines 184-186).
\* Faulty variant: a non-200 answer is counted as out of stock.
UnexpectedStatus_WrongCounter(r) ==
    /\ statistics' = Inc(statistics, "out_of_stock_count")
    /\ log' = Append(log, Line("unexpected_status", "error"))
    /\ result' = FALSE
    /\ pc' = "return"
    /\ UNCHANGED i

UnexpectedStatus(r) ==
    /\ statistics' = Inc(statistics, "error_count")
    /\ log' = Append(log, Line("unexpected_status", "error"))
    /\ result' = FALSE
    /\ pc' = "return"
    /\ UNCHANGED i

\* 200 and the marker is in the body (lines 171-173).
\* Faulty variant: the out-of-stock branch also runs the fan-out.
OutOfStock_Notifies(r) ==
    /\ statistics' = Inc(statistics, "out_of_stock_count")
    /\ log' = Append(log, Line("out_of_stock", "warning"))
    /\ result' = FALSE
    /\ pc' = "notify"
    /\ i' = 1

OutOfStock(r) ==
    /\ statistics' = Inc(statistics, "out_of_stock_count")
    /\ log' = Append(log, Line("out_of_stock", "warning"))
    /\ result' = FALSE
    /\ pc' = "return"
    /\ UNCHANGED i

\* 200 and no marker (lines 177-179): count, log, enter _notify_all.
\* Faulty variant: the in-stock branch returns without the fan-out.
InStock_NoNotify(r) ==
    /\ statistics' = Inc(statistics, "in_stock_count")
    /\ log' = Append(log, Line("in_stock", "success"))
    /\ result' = TRUE
    /\ pc' = "return"
    /\ UNCHANGED i

InStock(r) ==
    /\ statistics' = Inc(statistics, "in_stock_count")
    /\ log' = Append(log, Line("in_stock", "success"))
    /\ result' = TRUE
    /\ pc' = "notify"
    /\ i' = 1

\* The requests.post of line 164 completes with outcome r; lines 170-192.
HttpRespond ==
    /\ pc = "request"
    /\ \E r \in HttpOutcomes :
          /\ response' = r
          /\ posts' = posts + 1
          /\ IF r.raised
                THEN TransportError(r)
                ELSE IF r.status_code = HTTP_OK
                        THEN IF Contains(r.text, Marker)
                                THEN OutOfStock(r)
                                ELSE InStock(r)
                        ELSE UnexpectedStatus(r)
    /\ UNCHANGED <<notification_services, title, calls, sleeps, elapsed,
                   completed, entry, entry_calls>>

\* ---- _notify_all ------------------------------------------------------------
\* One send_notification call as the backend sees it: the SUCCESS status
\* passed at line 181 and the statistics the Discord embed reads (93-96).
Call(raises, stats) ==
    [service |-> i, kind |-> notification_services[i], status |-> "success",
     raised |-> raises, at |-> stats]

\* One iteration of the for loop (lines 197-202); raises says whether the
\* backend's send_notification raised.
\* Faulty variant: no try/except around the backend call.
NotifyOne_ShortCircuit(raises) ==
    /\ calls' = Append(calls, Call(raises, statistics))
    /\ IF raises
          THEN /\ pc' = "crashed"
               /\ UNCHANGED <<log, i>>
          ELSE /\ i' = i + 1
               /\ UNCHANGED <<log, pc>>
    /\ UNCHANGED statistics

\* Faulty variant: a raising backend is counted in error_count.
NotifyOne_CountsError(raises) ==
    /\ calls' = Append(calls, Call(raises, statistics))
    /\ log' = IF raises THEN Append(log, Line("notify_error", "error")) ELSE log
    /\ statistics' = IF raises THEN Inc(statistics, "error_count") ELSE statistics
    /\ i' = i + 1
    /\ UNCHANGED pc

\* Faulty variant: the backend holds a copy of the statistics taken before the check.
NotifyOne_StaleStats(raises) ==
    /\ calls' = Append(calls, Call(raises, entry))
    /\ log' = IF raises THEN Append(log, Line("notify_error", "error")) ELSE log
    /\ i' = i + 1
    /\ UNCHANGED <<statistics, pc>>

NotifyOne(raises) ==
    /\ calls' = Append(calls, Call(raises, statistics))
    /\ log' = IF raises THEN Append(log, Line("notify_error", "error")) ELSE log
    /\ i' = i + 1
    /\ UNCHANGED <<statistics, pc>>

Notify ==
    /\ pc = "notify"
    /\ i <= Len(notification_services)
    /\ \E raises \in BOOLEAN : NotifyOne(raises)
    /\ UNCHANGED <<notification_services, title, response, result, posts,
                   sleeps, elapsed, completed, entry, entry_calls>>

\* The for loop is exhausted; _notify_all returns to line 182.
NotifyEnd ==
    /\ pc = "notify"
    /\ i > Len(notification_services)
    /\ pc' = "return"
    /\ i' = 0
    /\ UNCHANGED <<notification_services, statistics, title, response, result,
                   log, calls, posts, sleeps, elapsed, completed, entry,
                   entry_calls>>

\* ---- return to main ---------------------------------------------------------
\* update_title and return (lines 174-175, 182-183, 187-188, 193-194), then
\* main's `if` (lines 234-239): break on True, otherwise announce the wait.
\* Faulty variant: main never breaks.
CheckReturn_NoBreak ==
    /\ pc = "return"
    /\ title' = TitleOf(statistics)
    /\ completed' = completed + 1
    /\ log' = Append(log, Line("waiting", "info"))
    /\ pc' = "sleep"
    /\ UNCHANGED <<notification_services, statistics, i, response, result,
                   calls, posts, sleeps, elapsed, entry, entry_calls>>

\* Faulty variant: the break is outside the `if`.
CheckReturn_BreakAlways ==
    /\ pc = "return"
    /\ title' = TitleOf(statistics)
    /\ completed' = completed + 1
    /\ log' = Append(log, Line("stopping", "success"))
    /\ pc' = "done"
    /\ UNCHANGED <<notification_services, statistics, i, response, result,
                   calls, posts, sleeps, elapsed, entry, entry_calls>>

CheckReturn ==
    /\ pc = "return"
    /\ title' = TitleOf(statistics)
    /\ completed' = completed + 1
    /\ IF result
          THEN /\ log' = Append(log, Line("stopping", "success"))
               /\ pc' = "done"
          ELSE /\ log' = Append(log, Line("waiting", "info"))
               /\ pc' = "sleep"
    /\ UNCHANGED <<notification_services, statistics, i, response, result,
                   calls, posts, sleeps, elapsed, entry, entry_calls>>

\* time.sleep(300) (line 240), then back to the top of the loop.
\* Faulty variant: time.sleep(5) instead of 300 seconds.
Sleep_Short ==
    /\ pc = "sleep"
    /\ sleeps' = sleeps + 1
    /\ elapsed' = elapsed + 5
    /\ pc' = "loop"
    /\ UNCHANGED <<notification_services, statistics, title, i, response,
                   result, log, calls, posts, completed, entry, entry_calls>>

Sleep ==
    /\ pc = "sleep"
    /\ sleeps' = sleeps + 1
    /\ elapsed' = elapsed + SleepSeconds
    /\ pc' = "loop"
    /\ UNCHANGED <<notification_services, statistics, title, i, response,
                   result, log, calls, posts, completed, entry, entry_calls>>

\* After `break` main returns and the process ends.
Exit ==
    /\ pc = "done"
    /\ pc' = "exited"
    /\ UNCHANGED <<notification_services, statistics, title, i, response,
                   result, log, calls, posts, sleeps, elapsed, completed,
                   entry, entry_calls>>

Next ==
    \/ CheckEnter
    \/ HttpRespond
    \/ Notify
    \/ NotifyEnd
    \/ CheckReturn
    \/ Sleep
    \/ Exit

Spec == Init /\ [][Next]_vars

\* ---- vocabulary of the properties ---------------------------------------------
Sum(s) == s.in_stock_count + s.out_of_stock_count + s.error_count

\* The thread is inside check_availability.
InCheck == pc \in {"request", "notify", "return"}

\* The endpoint has answered the current/last check.
Responded == response # NoResponse \/ response.raised

\* The last call of check_availability has returned to main.
Returned == completed > 0 /\ completed = statistics.total_checks

\* The loop of main is over, by break or by an escaping exception.
Terminated == pc \in {"done", "exited", "crashed"}

IsError(r) == r.raised \/ r.status_code # HTTP_OK
IsOutOfStock(r) == ~r.raised /\ r.status_code = HTTP_OK /\ Contains(r.text, Marker)
IsInStock(r) == ~r.raised /\ r.status_code = HTTP_OK /\ ~Contains(r.text, Marker)

\* Calls received during the current/last check.
NewCalls == (entry_calls + 1)..Len(calls)
RaisedCalls == {k \in NewCalls : calls[k].raised}
LogLines(m) == {k \in DOMAIN log : log[k].msg = m}

\* C1: total_checks counts the calls of check_availability (N completed calls
\* give total_checks = N, one more while a call is running); the three outcome
\* counters never add up to more than total_checks, and add up to exactly
\* total_checks once the outcome of a check is counted and whenever no check is
\* running.
C1_CountersConsistent ==
    /\ Sum(statistics) <= statistics.total_checks
    /\ InCheck => statistics.total_checks = completed + 1
    /\ pc \in {"loop", "sleep", "done", "exited"} =>
           /\ statistics.total_checks = completed
           /\ Sum(statistics) = statistics.total_checks
    /\ pc \in {"notify", "return"} => Sum(statistics) = statistics.total_checks
    /\ pc = "request" => Sum(statistics) = statistics.total_checks - 1
    /\ Sum(statistics) = Sum(entry) + (IF Responded THEN 1 ELSE 0)

C1_Witness ==
    /\ pc = "done"
    /\ completed >= 3
    /\ statistics.error_count >= 1
    /\ statistics.out_of_stock_count >= 1
    /\ statistics.in_stock_count = 1
    /\ \E k \in DOMAIN log : log[k].msg = "transport_error"

\* C2: after a 200 answer without the marker, check_availability returns true,
\* in_stock_count is one more than at entry, and every registered backend has
\* received exactly one send_notification call, with status success.
C2_InStockNotifiesAll ==
    (Returned /\ IsInStock(response)) =>
        /\ result = TRUE
        /\ statistics.in_stock_count = entry.in_stock_count + 1
        /\ \A s \in DOMAIN notification_services :
               Cardinality({k \in NewCalls : calls[k].service = s}) = 1
        /\ \A k \in NewCalls :
               /\ calls[k].status = "success"
               /\ calls[k].service \in DOMAIN notification_services

C2_Witness ==
    /\ Returned
    /\ IsInStock(response)
    /\ Len(notification_services) = MaxServices
    /\ Len(calls) = MaxServices
    /\ \A k \in DOMAIN calls : ~calls[k].raised

\* C3: whichever backends raise, the fan-out calls every registered backend
\* once, in registration order; no exception leaves _notify_all or
\* check_availability, which returns true.
C3_FanOutIsolated ==
    /\ pc # "crashed"
    /\ pc = "notify" =>
           /\ Len(calls) - entry_calls = i - 1
           /\ \A k \in 1..(i - 1) : calls[entry_calls + k].service = k
    /\ (Responded /\ IsInStock(response) /\ pc # "notify") =>
           /\ Len(calls) - entry_calls = Len(notification_services)
           /\ \A k \in 1..Len(notification_services) :
                  calls[entry_calls + k].service = k
           /\ result = TRUE

C3_Witness ==
    /\ pc = "done"
    /\ result = TRUE
    /\ Len(notification_services) >= 2
    /\ calls[1].raised
    /\ Len(calls) = Len(notification_services)

\* C4: a check that returns true ends the loop in the same step, and once a
\* check has returned true no step performs another check (total_checks,
\* requests), another notification or another sleep.
C4_StopsAfterFirstTrue ==
    [][ /\ (completed' = completed + 1 /\ result) => pc' = "done"
        /\ (Returned /\ result) =>
               /\ statistics' = statistics
               /\ posts' = posts
               /\ completed' = completed
               /\ calls' = calls
               /\ sleeps' = sleeps
               /\ elapsed' = elapsed
               /\ pc' \in {"done", "exited"} ]_vars

C4_Witness ==
    /\ pc = "exited"
    /\ Returned
    /\ result = TRUE
    /\ sleeps >= 1

\* C5: the loop is over exactly when a check has returned true, and then
\* in_stock_count is 1; there is no error exit: as long as no in-stock answer
\* was seen (in_stock_count = 0) the loop is still running, whatever errors and
\* out-of-stock answers occurred.
C5_TerminatesOnlyOnSuccess ==
    /\ Terminated <=> (Returned /\ result = TRUE)
    /\ Terminated => statistics.in_stock_count = 1
    /\ statistics.in_stock_count = 0 => pc \in {"loop", "request", "return", "sleep"}
    /\ pc # "crashed"

C5_Witness ==
    /\ pc = "sleep"
    /\ statistics.error_count >= 2
    /\ statistics.out_of_stock_count >= 1
    /\ Cardinality(LogLines("transport_error")) >= 1
    /\ Cardinality(LogLines("unexpected_status")) >= 1

\* C6: a check whose request raised a transport exception or got a status
\* other than 200 returns false, adds exactly 1 to error_count, leaves
\* in_stock_count and out_of_stock_count alone, calls no backend, and lets no
\* exception escape.
C6_ErrorOutcome ==
    (Responded /\ IsError(response)) =>
        /\ pc \in {"return", "sleep", "loop"}
        /\ result = FALSE
        /\ statistics.error_count = entry.error_count + 1
        /\ statistics.in_stock_count = entry.in_stock_count
        /\ statistics.out_of_stock_count = entry.out_of_stock_count
        /\ Len(calls) = entry_calls

C6_Witness ==
    /\ Returned
    /\ ~response.raised
    /\ response.status_code = 500
    /\ Contains(response.text, Marker)
    /\ Cardinality(LogLines("transport_error")) >= 1

\* C7: a 200 answer with the marker makes check_availability return false,
\* adds exactly 1 to out_of_stock_count, leaves in_stock_count and error_count
\* alone, and calls no backend.
C7_OutOfStockOutcome ==
    (Responded /\ IsOutOfStock(response)) =>
        /\ pc \in {"return", "sleep", "loop"}
        /\ result = FALSE
        /\ statistics.out_of_stock_count = entry.out_of_stock_count + 1
        /\ statistics.in_stock_count = entry.in_stock_count
        /\ statistics.error_count = entry.error_count
        /\ Len(calls) = entry_calls

C7_Witness ==
    /\ Returned
    /\ IsOutOfStock(response)
    /\ statistics.out_of_stock_count >= 2
    /\ pc = "sleep"

\* C8 as stated: every error of the three kinds adds to error_count, so a
\* backend that raised during the fan-out has raised error_count.
C8_Original ==
    statistics.error_count >=
        entry.error_count + Cardinality(RaisedCalls)
            + (IF Responded /\ IsError(response) THEN 1 ELSE 0)

\* C8 amended: transport failures and unexpected status codes add 1 to
\* error_count; a backend that raises during the fan-out is caught and logged
\* at error level, once per raising backend, and leaves error_count unchanged.
C8_NotifyFailureNotCounted ==
    /\ statistics.error_count =
           entry.error_count + (IF Responded /\ IsError(response) THEN 1 ELSE 0)
    /\ statistics.error_count =
           Cardinality(LogLines("transport_error"))
               + Cardinality(LogLines("unexpected_status"))
    /\ Cardinality(LogLines("notify_error")) =
           Cardinality({k \in DOMAIN calls : calls[k].raised})
    /\ \A k \in DOMAIN log : log[k].msg = "notify_error" => log[k].status = "error"

C8_Witness ==
    /\ pc = "done"
    /\ Len(calls) >= 1
    /\ \A k \in DOMAIN calls : calls[k].raised
    /\ statistics.error_count >= 1

\* C9: one request per check (no retry), one 300-second sleep after every check
\* that returned false and before the next check, no sleep after the check
\* that returned true: at the top of the loop sleeps = total_checks, from the
\* start of a check to the pending sleep or to termination sleeps =
\* total_checks - 1.
C9_FixedCadence ==
    /\ elapsed = SleepSeconds * sleeps
    /\ posts = statistics.total_checks - (IF pc = "request" THEN 1 ELSE 0)
    /\ pc = "loop" => sleeps = statistics.total_checks
    /\ pc \in {"request", "notify", "return", "sleep", "done", "exited"} =>
           sleeps = statistics.total_checks - 1
    /\ pc = "sleep" => (Returned /\ result = FALSE)

C9_Witness ==
    /\ pc = "done"
    /\ sleeps >= 2
    /\ sleeps = statistics.total_checks - 1
    /\ elapsed >= 600

\* C10: in_stock_count never exceeds 1; every backend receives at most one
\* call over the whole run, in the last check, and at the time of the call the
\* statistics already count that check: in_stock_count = 1 and the outcome
\* counters add up to total_checks.
C10_OneNotificationPerRun ==
    /\ statistics.in_stock_count <= 1
    /\ \A s \in DOMAIN notification_services :
           Cardinality({k \in DOMAIN calls : calls[k].service = s}) <= 1
    /\ \A k \in DOMAIN calls :
           /\ calls[k].at.in_stock_count = 1
           /\ Sum(calls[k].at) = calls[k].at.total_checks
           /\ calls[k].at = statistics
           /\ calls[k].kind = notification_services[calls[k].service]

C10_Witness ==
    /\ pc = "exited"
    /\ statistics.total_checks >= 2
    /\ Len(calls) >= 2
    /\ \E k \in DOMAIN calls : calls[k].kind = "Discord"

====
